---- MODULE Spec2Model ----
(***************************************************************************)
(* Lending ledger of the library management application.                   *)
(*                                                                         *)
(* The store is the SQLite schema of migration 001 (tables books, members, *)
(* transactions, settings, their CHECK / FOREIGN KEY constraints and the   *)
(* two availability triggers).  DatabaseService issues one SQL statement   *)
(* per call; the IPC handlers call the service and `await` every call, so  *)
(* a handler that makes several service calls is a sequence of steps and   *)
(* other handler invocations may run between two of its steps.             *)
(*                                                                         *)
(* Dates are whole days.  A due date is a date-only string 'yyyy-MM-dd';   *)
(* transaction_date and return_date are CURRENT_TIMESTAMP.                 *)
(* Book inputs follow the declared type BookFormData.totalCopies: number.  *)
(*                                                                         *)
(* Beside the ledger stand AuthService (PIN set-up, login with its lockout, *)
(* the session checkAuth looks at), whose settings are read with           *)
(* getSetting, and the application's start: the main process from          *)
(* app.whenReady() to its 'app-ready' message, and the renderer's          *)
(* SimpleApp.  Their clock is Date.now(), in milliseconds.                 *)
(***************************************************************************)
EXTENDS Integers, FiniteSets, Sequences, TLC

\* ---------------------------------------------------------------- bounds
MaxBooks == 2
MaxMembers == 1
MaxTxns == 2
MaxCopies == 2
MaxDay == 2
LedgerDayStep == 2
MaxDeskDay == 3
NumProcs == 2
MaxCatalogMembers == 2

\* ------------------------------------------------------ program constants
MaxTotalCopies == 1000
FallbackPeriod == 14
FallbackDailyRate == 5
FallbackMaxFine == 500

NULL == -1

\* NULL in the columns total_copies and available_copies (INTEGER DEFAULT 1,
\* not declared NOT NULL), where -1 is a number the lend trigger can compute.
NoCount == -2

Undefined == <<>>

BookIds == 1..MaxBooks
MemberIds == 1..MaxMembers
TxnIds == 1..MaxTxns
Procs == 1..NumProcs
MemberTypes == {"student", "faculty", "public"}
LedgerMemberTypes == {"student"}

DefaultLendingPeriods == [student |-> 14, faculty |-> 30, public |-> 7]

DefaultFineRules ==
  [student |-> [dailyRate |-> 5, maxFine |-> 500],
   faculty |-> [dailyRate |-> 3, maxFine |-> 300],
   public  |-> [dailyRate |-> 10, maxFine |-> 1000]]

\* Values the settings:set handler is given in this model.
FineRulesInputs ==
  { [student |-> [dailyRate |-> 2, gracePeriod |-> 0, maxFine |-> 3],
     faculty |-> [dailyRate |-> 3, gracePeriod |-> 3, maxFine |-> 300],
     public  |-> [dailyRate |-> 0, gracePeriod |-> 0, maxFine |-> 0]] }

LendingPeriodsInputs == { [student |-> 14, faculty |-> 30, public |-> 7] }

TotalCopiesInputs == (0..MaxCopies) \cup {MaxTotalCopies + 1}


ExplicitDueOffsets == {-1, 1}

\* Values of bookData.isbn, memberData.memberId and memberData.email, as
\* numbers; 0 stands for a value left out (undefined or '').
NoValue == 0
IsbnInputs == {NoValue, 1, 2}
MemberCodeInputs == {1, 2}
EmailInputs == {NoValue, 1}

VARIABLES
  books,        \* id -> row of table books (only the existing rows)
  members,      \* id -> row of table members
  transactions, \* id -> row of table transactions
  settings,     \* key -> column `value` of table settings (JSON text)
  bookSeq,      \* AUTOINCREMENT counters (sqlite_sequence)
  memberSeq,
  txnSeq,
  now,          \* the clock, in days
  proc,         \* handler invocations in flight, one per slot
  response,     \* the response the last step sent, if it sent one
  clock,        \* Date.now(), in milliseconds since the application started
  auth,         \* AuthService: currentSession, loginAttempts, the call in flight
  main,         \* main process: startup position, mainWindow, startupError, sends
  renderer      \* SimpleApp: its state and the 'app-ready' messages it was handed

vars == <<books, members, transactions, settings, bookSeq, memberSeq, txnSeq, now, proc, response,
          clock, auth, main, renderer>>
store == <<books, members, transactions, settings, bookSeq, memberSeq, txnSeq>>
\* What the ledger handlers never touch, and what the others never touch.
shell == <<clock, auth, main, renderer>>
ledger == <<books, members, transactions, bookSeq, memberSeq, txnSeq, now, proc>>

\* ------------------------------------------------------------ the schema

\* A CHECK fails when its expression is false, not when it is NULL.
chk_total_copies(row) == row.total_copies = NoCount \/ row.total_copies > 0

\* The books table without CONSTRAINT chk_available_copies.
chk_available_copies_dropped(row) == TRUE

chk_available_copies(row) == row.available_copies = NoCount \/ row.available_copies >= 0
chk_available_not_more_than_total(row) ==
  \/ row.available_copies = NoCount
  \/ row.total_copies = NoCount
  \/ row.available_copies <= row.total_copies

BookChecks(row) ==
  /\ chk_total_copies(row)
  /\ chk_available_copies(row)
  /\ chk_available_not_more_than_total(row)

\* (chk_due_date_dropped: the transactions table without the CHECK.)
\* due_date 'yyyy-MM-dd' against transaction_date 'yyyy-MM-dd HH:MM:SS', both
\* TEXT: a date-only string is a proper prefix of the timestamp of the same day
\* and so compares smaller; it is >= only from the next day on.
chk_due_date_dropped(due, tdate) == TRUE

chk_due_date_after_lend(due, tdate) == due = NULL \/ due > tdate

\* return_date and transaction_date are both timestamps of the same clock.
chk_return_date_after_lend(ret, tdate) == ret = NULL \/ ret >= tdate

IsOpen(t) == t.transaction_type = "lend" /\ t.return_date = NULL

OpenTxns(b) == {t \in DOMAIN transactions : transactions[t].book_id = b /\ IsOpen(transactions[t])}
OpenTxnsOfMember(m) == {t \in DOMAIN transactions : transactions[t].member_id = m /\ IsOpen(transactions[t])}

Restrict(f, S) == [x \in S |-> f[x]]

\* A lend trigger that counts the copy down and leaves status alone.
LendTriggerRowCountOnly(row) ==
  [row EXCEPT !.available_copies = IF row.available_copies = NoCount THEN NoCount
                                     ELSE row.available_copies - 1]

\* Trigger update_book_status_on_lend: the SET expressions read the old row;
\* NULL - 1 is NULL, and a WHEN whose comparison is NULL is not taken.
LendTriggerRow(row) ==
  [row EXCEPT !.available_copies = IF row.available_copies = NoCount THEN NoCount
                                     ELSE row.available_copies - 1,
              !.status = IF row.available_copies = NoCount THEN "reserved"
                         ELSE IF row.available_copies - 1 = 0 THEN "loaned"
                         ELSE IF row.available_copies - 1 > 0 THEN "available"
                         ELSE "reserved"]

\* Trigger update_book_status_on_return.
ReturnTriggerRow(row) ==
  [row EXCEPT !.available_copies = IF row.available_copies = NoCount THEN NoCount
                                     ELSE row.available_copies + 1,
              !.status = "available"]


\* -------------------------------------------------- DatabaseService (reads)

\* getBookById: the row as the driver returns it, keyed by column name.
getBookById(id) == IF id \in DOMAIN books THEN books[id] ELSE Undefined

\* getMemberById
getMemberById(id) == IF id \in DOMAIN members THEN members[id] ELSE Undefined

\* getTransactionById: t.* JOIN books JOIN members, with m.member_type.  Of
\* the row, the columns its caller reads.
getTransactionById(id) ==
  IF /\ id \in DOMAIN transactions
     /\ transactions[id].book_id \in DOMAIN books
     /\ transactions[id].member_id \in DOMAIN members
  THEN [due_date |-> transactions[id].due_date,
        return_date |-> transactions[id].return_date,
        member_type |-> members[transactions[id].member_id].member_type]
  ELSE Undefined

\* JSON.stringify(value) and JSON.parse(text): a text is not the value it
\* encodes.
JsonStringify(value) == <<"json", value>>
JsonParse(text) == text[2]

\* getAllSettings: every stored key with its parsed value.
getAllSettings == [k \in DOMAIN settings |-> JsonParse(settings[k])]

\* getSetting: `result ? result.value : null`, the stored text as it is;
\* <<>> is null.
getSetting(key) == IF key \in DOMAIN settings THEN settings[key] ELSE <<>>

\* FROM transactions t JOIN books b ON t.book_id = b.id
\*                     JOIN members m ON t.member_id = m.id
JoinedTxns ==
  {t \in DOMAIN transactions : /\ transactions[t].book_id \in DOMAIN books
                               /\ transactions[t].member_id \in DOMAIN members}

\* `t.due_date < date('now')`: NULL compares as unknown, which is not true.
DueBeforeToday(t) == transactions[t].due_date # NULL /\ transactions[t].due_date < now

\* getOverdueTransactions as <= would have it (the due day itself overdue).
getOverdueTransactionsInclusive ==
  {[id |-> t] : t \in {t \in JoinedTxns :
                         /\ transactions[t].transaction_type = "lend"
                         /\ transactions[t].return_date = NULL
                         /\ transactions[t].due_date # NULL
                         /\ transactions[t].due_date <= now}}

\* getActiveTransactions: WHERE t.transaction_type = 'lend' AND t.return_date
\* IS NULL, each row with its CASE ... END as status.  Of the row, its id and
\* status; the rows as a set (ORDER BY t.due_date is not modelled).
getActiveTransactions ==
  {[id |-> t, status |-> IF DueBeforeToday(t) THEN "overdue" ELSE "on_time"] :
     t \in {t \in JoinedTxns : /\ transactions[t].transaction_type = "lend"
                                /\ transactions[t].return_date = NULL}}

\* getOverdueTransactions: ... AND t.due_date < date('now')
getOverdueTransactions ==
  {[id |-> t] : t \in {t \in JoinedTxns : /\ transactions[t].transaction_type = "lend"
                                           /\ transactions[t].return_date = NULL
                                           /\ DueBeforeToday(t)}}

\* ------------------------------------------------- handler-side arithmetic

\* `book.availableCopies <= 0` on the row getBookById returned.  A property
\* the row does not have reads undefined, and undefined <= 0 is false.
BookNotAvailable(book) ==
  IF "availableCopies" \in DOMAIN book THEN book.availableCopies <= 0 ELSE FALSE

\* `settings.lendingPeriods || {student: 14, faculty: 30, public: 7}`
LendingPeriodsOf(s) ==
  IF "lendingPeriods" \in DOMAIN s THEN s.lendingPeriods ELSE DefaultLendingPeriods

\* `lendingPeriods[member.memberType] || 14` on the row getMemberById returned.
LendingPeriod(s, member) ==
  LET periods == LendingPeriodsOf(s)
  IN IF "memberType" \in DOMAIN member /\ periods[member.memberType] # 0
     THEN periods[member.memberType]
     ELSE FallbackPeriod

\* format(addDays(new Date(), period), 'yyyy-MM-dd')
CalculatedDueDate(today, period) == today + period

\* `new Date(transaction.due_date) < new Date()`: midnight of the due day
\* against the current instant, which lies within day `today`.
DueInstantPassed(due, today) == due <= today

\* differenceInDays(new Date(), new Date(due_date)): full days elapsed.
differenceInDays(today, due) == today - due

\* `settings.fineRules || { ...defaults }`
FineRulesOf(s) == IF "fineRules" \in DOMAIN s THEN s.fineRules ELSE DefaultFineRules

\* `fineRules[memberType]?.dailyRate || 5`
DailyRate(s, memberType) ==
  LET r == FineRulesOf(s)[memberType].dailyRate
  IN IF r # 0 THEN r ELSE FallbackDailyRate

\* `fineRules[memberType]?.maxFine || 500`
MaxFine(s, memberType) ==
  LET r == FineRulesOf(s)[memberType].maxFine
  IN IF r # 0 THEN r ELSE FallbackMaxFine

Min(a, b) == IF a <= b THEN a ELSE b

\* Math.min(daysOverdue * dailyRate, maxFine)
FineAmount(daysOverdue, memberType, s) ==
  Min(daysOverdue * DailyRate(s, memberType), MaxFine(s, memberType))

\* ------------------------------------------------------------- responses

Ok(data) == [success |-> TRUE, error |-> "", data |-> data]
Err(msg) == [success |-> FALSE, error |-> msg, data |-> NULL]

ErrBookNotFound == "Book not found"
ErrNotAvailable == "Book is not available for lending"
ErrMemberNotFound == "Member not found"
ErrTxnNotFound == "Transaction not found"
ErrAlreadyReturned == "Book has already been returned"
ErrCheckAvailable == "CHECK constraint failed: chk_available_copies"
ErrCheckNotMoreThanTotal == "CHECK constraint failed: chk_available_not_more_than_total"
ErrCheckDueDate == "CHECK constraint failed: chk_due_date_after_lend"
ErrForeignKey == "FOREIGN KEY constraint failed"
ErrTotalCopiesRange == "Total copies must be between 1 and 1000"
ErrCheckTotalCopies == "CHECK constraint failed: chk_total_copies"
ErrIsbnExists == "A book with this ISBN already exists"
ErrMemberIdExists == "A member with this ID already exists"
ErrEmailExists == "A member with this email already exists"

Idle == [pc |-> "idle"]
NoResponse == [op |-> "none"]
Response(op, result) == [op |-> op, success |-> result.success, error |-> result.error]
Free(p) == proc[p].pc = "idle"
InFlightLends == {p \in Procs : proc[p].pc \in {"lend_book", "lend_member", "lend_settings"}}

\* A step that sends no lend / return response.
Quiet == response' = NoResponse

\* A handler that fails before it writes: the store stays as it is.
Rejected == UNCHANGED <<store, now, proc>> /\ Quiet

\* ------------------------------------------------------------ AuthService

\* The constructor's settings, in milliseconds.
sessionTimeout == 30 * 60 * 1000
maxLoginAttempts == 5
lockoutDuration == 15 * 60 * 1000

\* A PIN is the sequence of its characters.
PinInputs == {<<1, 2, 3, 4>>, <<0, 0, 0, 0>>, <<1, 2>>}

\* The clock of AuthSpec moves in steps of five minutes, up to 45 minutes.
AuthClockStep == 300000
MaxAuthClock == 2700000
\* Failed attempts counted in AuthSpec.
MaxFailedAttempts == 6

\* bcrypt.hash(pin, 12): the 60-character text "$2a$12$..." (the salt is left
\* out: a hash is told by its PIN).
bcryptHash(pin) == <<"$2a$12$", pin>>

\* bcrypt.compare(pin, hash): false for a text that is no 60-character hash.
bcryptCompare(pin, hash) == hash[1] = "$2a$12$" /\ hash = bcryptHash(pin)

\* A text read from settings.value, as opposed to null (<<>>) and to a boolean.
IsText(v) == v # <<>> /\ v[1] = "json"

\* `authEnabled === false`: strict equality with the boolean false.
StrictlyFalse(v) == v # <<>> /\ ~IsText(v) /\ v = FALSE

\* getClientInfo()
clientInfo == "desktop_client"

\* new AuthService(): no session, no attempts; `call` is the method running,
\* `entered` the time the last login carrying the stored PIN finished (what the
\* desk did, not a field of the service), NULL after a logout.
AuthServiceNew ==
  [currentSession |-> <<>>, loginAttempts |-> <<>>, call |-> [pc |-> "idle"], entered |-> NULL]

\* createSession()
createSession == [startTime |-> clock, lastActivity |-> clock]

\* isLockedOut(clientInfo)
isLockedOut ==
  /\ clientInfo \in DOMAIN auth.loginAttempts
  /\ auth.loginAttempts[clientInfo].count >= maxLoginAttempts
  /\ clock - auth.loginAttempts[clientInfo].lastAttempt < lockoutDuration

\* getLockoutTimeLeft(clientInfo)
getLockoutTimeLeft ==
  IF clientInfo \notin DOMAIN auth.loginAttempts THEN 0
  ELSE LET left == lockoutDuration - (clock - auth.loginAttempts[clientInfo].lastAttempt)
       IN IF left > 0 THEN left ELSE 0

\* Math.ceil(ms / 60000)
CeilMinutes(ms) == (ms + 59999) \div 60000

\* A recordFailedAttempt that starts counting again once the last attempt
\* is a lockout duration old.
recordFailedAttemptRestarting ==
  LET count == IF /\ clientInfo \in DOMAIN auth.loginAttempts
                  /\ clock - auth.loginAttempts[clientInfo].lastAttempt < lockoutDuration
               THEN auth.loginAttempts[clientInfo].count ELSE 0
  IN [c \in {clientInfo} |-> [count |-> count + 1, lastAttempt |-> clock]]

\* recordFailedAttempt(clientInfo)
recordFailedAttempt ==
  LET count == IF clientInfo \in DOMAIN auth.loginAttempts
               THEN auth.loginAttempts[clientInfo].count ELSE 0
  IN [c \in {clientInfo} |-> [count |-> count + 1, lastAttempt |-> clock]]

\* clearFailedAttempts(clientInfo): `delete this.loginAttempts[clientInfo]`
clearFailedAttempts == <<>>

FailedAttempts ==
  IF clientInfo \in DOMAIN auth.loginAttempts THEN auth.loginAttempts[clientInfo].count ELSE 0

\* The PIN whose hash setup stored.
PinOnFile(pin) ==
  /\ "authPinHash" \in DOMAIN settings
  /\ JsonParse(settings["authPinHash"]) = bcryptHash(pin)

\* ------------------------------------------------- main process, renderer

\* setTimeout(..., 1000) before 'app-ready' is sent; the renderer's startup
\* timeout of the startup tests.
ReadyDelay == 1000
StartupTimeout == 10000

\* The clock of StartupSpec moves in steps of one second, up to 12 seconds.
StartClockStep == 1000
MaxStartClock == 12000

\* What initializeDatabase, db.initialize and setupIpcHandlers can throw.
StartupFailures == {"C++20 or later required."}

\* The module as loaded: `let mainWindow; let startupError = null`, nothing
\* sent.  `windows` counts the createWindow() calls, `timer` is the pending
\* setTimeout (<<>> when none), `sent` the 'app-ready' messages sent.
MainLoaded ==
  [pc |-> "launch", mainWindow |-> "null", windows |-> 0, startupError |-> <<>>,
   timer |-> <<>>, sent |-> <<>>]

\* The main process after a start without errors.
MainRunning ==
  [pc |-> "running", mainWindow |-> "open", windows |-> 1, startupError |-> <<>>,
   timer |-> <<>>, sent |-> <<[status |-> "success", timestamp |-> 0]>>]

\* SimpleApp before its page is loaded, and its useState() values at mount;
\* `handed` counts the 'app-ready' messages the renderer process was given.
RendererUnmounted == [mounted |-> FALSE]
SimpleAppMounted(handed) ==
  [mounted |-> TRUE, isAuthenticated |-> FALSE, isLoading |-> TRUE, startupError |-> <<>>,
   startupTimeout |-> <<>>, mountedAt |-> clock, handed |-> handed]

\* The application before app.whenReady() resolves.
ShellLaunch ==
  /\ clock = 0
  /\ auth = AuthServiceNew
  /\ main = MainLoaded
  /\ renderer = RendererUnmounted

\* The application started and its page loaded, nobody signed in.
ShellRunning ==
  /\ clock = 0
  /\ auth = AuthServiceNew
  /\ main = MainRunning
  /\ renderer = SimpleAppMounted(1)

Init ==
  /\ books = <<>>
  /\ members = <<>>
  /\ transactions = <<>>
  /\ settings = <<>>
  /\ bookSeq = 0
  /\ memberSeq = 0
  /\ txnSeq = 0
  /\ now = 0
  /\ proc = [p \in Procs |-> Idle]
  /\ response = NoResponse
  /\ ShellRunning


\* ------------------------------------------- DatabaseService (statements)

\* `bookData.isbn || null`, `memberData.email || null`
OrNull(v) == IF v = NoValue THEN NULL ELSE v

\* books without its UNIQUE index on isbn.
IsbnNeverTaken(isbn, self) == FALSE

\* isbn TEXT UNIQUE, member_id TEXT UNIQUE NOT NULL, email TEXT UNIQUE: a value
\* that is not NULL and that a row other than `self` holds.
IsbnTaken(isbn, self) ==
  isbn # NULL /\ \E b \in DOMAIN books \ {self} : books[b].isbn = isbn
MemberIdTaken(code, self) ==
  \E m \in DOMAIN members \ {self} : members[m].member_id = code
EmailTaken(email, self) ==
  email # NULL /\ \E m \in DOMAIN members \ {self} : members[m].email = email


\* INSERT INTO books (..., isbn, ..., total_copies, available_copies, ..., status)
\* VALUES (..., isbn || null, ..., totalCopies, totalCopies, ..., 'available')
NewBookRow(totalCopies, isbn) ==
  [total_copies |-> totalCopies, available_copies |-> totalCopies,
   status |-> "available", isbn |-> OrNull(isbn)]

\* The books CHECK that a row fails first, as the error SQLite raises.
BookCheckError(row) ==
  IF ~chk_total_copies(row) THEN ErrCheckTotalCopies
  ELSE IF ~chk_available_copies(row) THEN ErrCheckAvailable
  ELSE IF ~chk_available_not_more_than_total(row) THEN ErrCheckNotMoreThanTotal
  ELSE ""

\* 'books:create': the error of the validation, of the row's CHECKs or of the
\* UNIQUE index as createBook rethrows it; "" when the book is inserted.
CreateBookError(totalCopies, isbn) ==
  IF totalCopies \notin {0, NoCount} /\ (totalCopies < 1 \/ totalCopies > MaxTotalCopies)
  THEN ErrTotalCopiesRange
  ELSE IF ~BookChecks(NewBookRow(totalCopies, isbn))
  THEN BookCheckError(NewBookRow(totalCopies, isbn))
  ELSE IF IsbnTaken(OrNull(isbn), 0) THEN ErrIsbnExists
  ELSE ""

\* 'books:create': validation, then createBook.
CreateBook(totalCopies, isbn) ==
  IF CreateBookError(totalCopies, isbn) = ""
  THEN /\ books' = books @@ ((bookSeq + 1) :> NewBookRow(totalCopies, isbn))
       /\ bookSeq' = bookSeq + 1
       /\ UNCHANGED <<members, transactions, settings, memberSeq, txnSeq, now, proc>> /\ Quiet
  ELSE Rejected

\* UPDATE books SET ..., isbn = ?, ..., total_copies = ?, ... WHERE id = ?
\* (available_copies and status are not in the SET list)
UpdatedBookRow(row, totalCopies, isbn) ==
  [row EXCEPT !.total_copies = totalCopies, !.isbn = OrNull(isbn)]

\* 'books:update': the error, "" when the row is updated.
UpdateBookError(id, totalCopies, isbn) ==
  IF totalCopies \notin {0, NoCount} /\ (totalCopies < 1 \/ totalCopies > MaxTotalCopies)
  THEN ErrTotalCopiesRange
  ELSE IF id \notin DOMAIN books THEN ErrBookNotFound
  ELSE IF ~BookChecks(UpdatedBookRow(books[id], totalCopies, isbn))
  THEN BookCheckError(UpdatedBookRow(books[id], totalCopies, isbn))
  ELSE IF IsbnTaken(OrNull(isbn), id) THEN ErrIsbnExists
  ELSE ""

\* 'books:update': validation, then updateBook.
UpdateBook(id, totalCopies, isbn) ==
  IF UpdateBookError(id, totalCopies, isbn) = ""
  THEN /\ books' = [books EXCEPT ![id] = UpdatedBookRow(books[id], totalCopies, isbn)]
       /\ UNCHANGED <<members, transactions, settings, bookSeq, memberSeq, txnSeq, now, proc>> /\ Quiet
  ELSE Rejected

\* (DeleteBookUnguarded: deleteBook without its active-loans query.)
\* deleteBook: refuse while the book has active loans, else DELETE FROM books;
\* the foreign key deletes the book's transactions with it (ON DELETE CASCADE).
DeleteBookUnguarded(id) == FALSE
DeleteBookRefused(id) == OpenTxns(id) # {}
DeleteBook(id) ==
  /\ IF DeleteBookRefused(id) \/ id \notin DOMAIN books
     THEN Rejected
     ELSE /\ books' = Restrict(books, DOMAIN books \ {id})
          /\ transactions' = Restrict(transactions,
                 {t \in DOMAIN transactions : transactions[t].book_id # id})
          /\ UNCHANGED <<members, settings, bookSeq, memberSeq, txnSeq, now, proc>> /\ Quiet

\* INSERT INTO members (name, member_id, email, ..., member_type, notes)
NewMemberRow(memberType, memberId, email) ==
  [member_type |-> memberType, member_id |-> memberId, email |-> OrNull(email)]

\* The UNIQUE index a member row runs into, as createMember / updateMember
\* rethrow it; "" when there is none.
MemberUniqueError(memberId, email, self) ==
  IF MemberIdTaken(memberId, self) THEN ErrMemberIdExists
  ELSE IF EmailTaken(OrNull(email), self) THEN ErrEmailExists
  ELSE ""

\* 'members:create' -> createMember
CreateMember(memberType, memberId, email) ==
  IF MemberUniqueError(memberId, email, 0) = ""
  THEN /\ members' = members @@ ((memberSeq + 1) :> NewMemberRow(memberType, memberId, email))
       /\ memberSeq' = memberSeq + 1
       /\ UNCHANGED <<books, transactions, settings, bookSeq, txnSeq, now, proc>> /\ Quiet
  ELSE Rejected

\* 'members:update' -> updateMember; "Member not found" when no row matches.
UpdateMemberError(id, memberId, email) ==
  IF id \notin DOMAIN members THEN ErrMemberNotFound
  ELSE MemberUniqueError(memberId, email, id)

UpdateMember(id, memberType, memberId, email) ==
  IF UpdateMemberError(id, memberId, email) = ""
  THEN /\ members' = [members EXCEPT ![id] = NewMemberRow(memberType, memberId, email)]
       /\ UNCHANGED <<books, transactions, settings, bookSeq, memberSeq, txnSeq, now, proc>> /\ Quiet
  ELSE Rejected

\* deleteMember: refuse while the member has active loans, else DELETE.
DeleteMemberRefused(id) == OpenTxnsOfMember(id) # {}
\* A deleteMember whose DELETE leaves the member's transactions in place
\* (a transactions table without ON DELETE CASCADE on member_id).
DeleteMemberNoCascade(id) ==
  /\ IF DeleteMemberRefused(id) \/ id \notin DOMAIN members
     THEN Rejected
     ELSE /\ members' = Restrict(members, DOMAIN members \ {id})
          /\ UNCHANGED <<books, transactions, settings, bookSeq, memberSeq, txnSeq, now, proc>>
          /\ Quiet

DeleteMember(id) ==
  /\ IF DeleteMemberRefused(id) \/ id \notin DOMAIN members
     THEN Rejected
     ELSE /\ members' = Restrict(members, DOMAIN members \ {id})
          /\ transactions' = Restrict(transactions,
                 {t \in DOMAIN transactions : transactions[t].member_id # id})
          /\ UNCHANGED <<books, settings, bookSeq, memberSeq, txnSeq, now, proc>> /\ Quiet

\* 'settings:set' -> setSetting: INSERT OR REPLACE INTO settings
SetSetting(key, value) ==
  /\ settings' = [k \in DOMAIN settings \cup {key} |->
                    IF k = key THEN JsonStringify(value) ELSE settings[k]]
  /\ UNCHANGED <<books, members, transactions, bookSeq, memberSeq, txnSeq, now, proc>> /\ Quiet

\* The clock moves on by `step` days.
Tick(step, lastDay) ==
  /\ now + step <= lastDay
  /\ now' = now + step
  /\ UNCHANGED <<store, proc>> /\ Quiet

\* createTransaction: INSERT INTO transactions (book_id, member_id,
\* transaction_type, due_date, notes) VALUES (?, ?, 'lend', ?, ?), with the
\* row's CHECKs, the trigger update_book_status_on_lend and the books CHECKs it
\* runs into, and the foreign keys.  Yields the error, or "" when the row is in.
NewTxnRow(bookId, memberId, dueDate) ==
  [book_id |-> bookId, member_id |-> memberId, transaction_type |-> "lend",
   transaction_date |-> now, due_date |-> dueDate, return_date |-> NULL,
   fine_amount |-> 0]

InsertTransactionError(bookId, memberId, dueDate) ==
  IF ~chk_due_date_after_lend(dueDate, now) THEN ErrCheckDueDate
  ELSE IF bookId \in DOMAIN books /\ ~chk_available_copies(LendTriggerRow(books[bookId]))
  THEN ErrCheckAvailable
  ELSE IF bookId \notin DOMAIN books \/ memberId \notin DOMAIN members THEN ErrForeignKey
  ELSE ""

\* The handler's last step: createTransaction and the response.
CreateTransaction(p, dueDate) ==
  LET bookId == proc[p].bookId
      memberId == proc[p].memberId
      err == InsertTransactionError(bookId, memberId, dueDate)
      id == txnSeq + 1
  IN IF err = ""
     THEN /\ transactions' = transactions @@ (id :> NewTxnRow(bookId, memberId, dueDate))
          /\ txnSeq' = id
          /\ books' = [books EXCEPT ![bookId] = LendTriggerRow(books[bookId])]
          /\ proc' = [proc EXCEPT ![p] = Idle]
          /\ response' = Response("lend", Ok(id))
          /\ UNCHANGED <<members, settings, bookSeq, memberSeq, now>>
     ELSE /\ proc' = [proc EXCEPT ![p] = Idle]
          /\ response' = Response("lend", Err(err))
          /\ UNCHANGED <<store, now>>

LendFails(p, msg) ==
  /\ proc' = [proc EXCEPT ![p] = Idle]
  /\ response' = Response("lend", Err(msg))
  /\ UNCHANGED <<store, now>>

DueDateInputs == {NULL} \cup {d \in {now + o : o \in ExplicitDueOffsets} : d >= 0}

\* 'transactions:lend', up to the first await: getBookById.
LendStart(p, bookId, memberId, dueDate) ==
  /\ Free(p)
  /\ txnSeq + Cardinality(InFlightLends) < MaxTxns
  /\ proc' = [proc EXCEPT ![p] =
       [pc |-> "lend_book", op |-> "lend", bookId |-> bookId, memberId |-> memberId,
        dueDate |-> dueDate, book |-> getBookById(bookId)]]
  /\ UNCHANGED <<store, now>> /\ Quiet

\* ... the book checks, then getMemberById.
LendCheckBook(p) ==
  /\ proc[p].pc = "lend_book"
  /\ IF proc[p].book = Undefined THEN LendFails(p, ErrBookNotFound)
     ELSE IF BookNotAvailable(proc[p].book) THEN LendFails(p, ErrNotAvailable)
     ELSE /\ proc' = [proc EXCEPT ![p] =
               [pc |-> "lend_member", op |-> "lend", bookId |-> proc[p].bookId,
                memberId |-> proc[p].memberId, dueDate |-> proc[p].dueDate,
                book |-> proc[p].book,
                member |-> getMemberById(proc[p].memberId)]]
          /\ UNCHANGED <<store, now>> /\ Quiet

\* ... the member check, then getAllSettings when no due date was given,
\* createTransaction otherwise.
LendCheckMember(p) ==
  /\ proc[p].pc = "lend_member"
  /\ IF proc[p].member = Undefined THEN LendFails(p, ErrMemberNotFound)
     ELSE IF proc[p].dueDate = NULL
     THEN /\ proc' = [proc EXCEPT ![p] =
               [pc |-> "lend_settings", op |-> "lend", bookId |-> proc[p].bookId,
                memberId |-> proc[p].memberId, dueDate |-> proc[p].dueDate,
                book |-> proc[p].book, member |-> proc[p].member,
                settings |-> getAllSettings]]
          /\ UNCHANGED <<store, now>> /\ Quiet
     ELSE CreateTransaction(p, proc[p].dueDate)

\* ... the calculated due date, then createTransaction.
LendCalculated(p) ==
  /\ proc[p].pc = "lend_settings"
  /\ CreateTransaction(p,
       CalculatedDueDate(now, LendingPeriod(proc[p].settings, proc[p].member)))


\* returnBook: UPDATE transactions SET return_date = CURRENT_TIMESTAMP,
\* fine_amount = ?, transaction_type = 'return' WHERE id = ?, with the trigger
\* update_book_status_on_return (WHEN OLD.return_date IS NULL AND
\* NEW.return_date IS NOT NULL) and the books CHECKs it runs into.
\* A returnBook UPDATE without "transaction_type = 'return'".
ReturnedTxnRowKeepsType(row, fineAmount) ==
  [row EXCEPT !.return_date = now, !.fine_amount = fineAmount]

ReturnedTxnRow(row, fineAmount) ==
  [row EXCEPT !.return_date = now, !.fine_amount = fineAmount,
              !.transaction_type = "return"]

\* A return trigger without its WHEN clause.
ReturnTriggerAlways(old, new) == TRUE

ReturnTriggerFires(old, new) == old.return_date = NULL /\ new.return_date # NULL

ReturnBookError(transactionId, fineAmount) ==
  IF transactionId \notin DOMAIN transactions THEN ErrTxnNotFound
  ELSE LET old == transactions[transactionId]
           new == ReturnedTxnRow(old, fineAmount)
       IN IF /\ ReturnTriggerFires(old, new)
             /\ old.book_id \in DOMAIN books
             /\ ~chk_available_not_more_than_total(ReturnTriggerRow(books[old.book_id]))
          THEN ErrCheckNotMoreThanTotal
          ELSE ""

\* The handler's last step: returnBook and the response.
ReturnBook(p, fineAmount) ==
  LET id == proc[p].transactionId
      err == ReturnBookError(id, fineAmount)
  IN IF err = ""
     THEN LET old == transactions[id]
              new == ReturnedTxnRow(old, fineAmount)
          IN /\ transactions' = [transactions EXCEPT ![id] = new]
             /\ books' = IF ReturnTriggerFires(old, new) /\ old.book_id \in DOMAIN books
                         THEN [books EXCEPT ![old.book_id] = ReturnTriggerRow(books[old.book_id])]
                         ELSE books
             /\ proc' = [proc EXCEPT ![p] = Idle]
             /\ response' = Response("return", Ok(id))
             /\ UNCHANGED <<members, settings, bookSeq, memberSeq, txnSeq, now>>
     ELSE /\ proc' = [proc EXCEPT ![p] = Idle]
          /\ response' = Response("return", Err(err))
          /\ UNCHANGED <<store, now>>

\* A return handler with one message for every refusal.
ReturnFailsAsReturned(p, msg) ==
  /\ proc' = [proc EXCEPT ![p] = Idle]
  /\ response' = Response("return", Err(ErrAlreadyReturned))
  /\ UNCHANGED <<store, now>>

ReturnFails(p, msg) ==
  /\ proc' = [proc EXCEPT ![p] = Idle]
  /\ response' = Response("return", Err(msg))
  /\ UNCHANGED <<store, now>>

\* 'transactions:return', up to the first await: getTransactionById.
ReturnStart(p, transactionId) ==
  /\ Free(p)
  /\ proc' = [proc EXCEPT ![p] =
       [pc |-> "return_txn", op |-> "return", transactionId |-> transactionId,
        transaction |-> getTransactionById(transactionId)]]
  /\ UNCHANGED <<store, now>> /\ Quiet

\* `if (transaction.return_date)`
AlreadyReturned(transaction) == transaction.return_date # NULL

\* ... the checks; an overdue loan goes on to getAllSettings, any other
\* straight to returnBook with fineAmount 0.
ReturnCheck(p) ==
  /\ proc[p].pc = "return_txn"
  /\ LET transaction == proc[p].transaction
     IN IF transaction = Undefined THEN ReturnFails(p, ErrTxnNotFound)
        ELSE IF AlreadyReturned(transaction) THEN ReturnFails(p, ErrAlreadyReturned)
        ELSE IF /\ DueInstantPassed(transaction.due_date, now)
                /\ differenceInDays(now, transaction.due_date) > 0
        THEN /\ proc' = [proc EXCEPT ![p] =
                  [pc |-> "return_settings", op |-> "return",
                   transactionId |-> proc[p].transactionId,
                   member_type |-> transaction.member_type,
                   daysOverdue |-> differenceInDays(now, transaction.due_date),
                   settings |-> getAllSettings]]
             /\ UNCHANGED <<store, now>> /\ Quiet
        ELSE ReturnBook(p, 0)

\* ... the fine, then returnBook.
ReturnOverdue(p) ==
  /\ proc[p].pc = "return_settings"
  /\ ReturnBook(p, FineAmount(proc[p].daysOverdue, proc[p].member_type, proc[p].settings))

\* An overdue listing that writes the fine accrued so far into each row.
GetOverdueCharging ==
  /\ transactions' =
       [t \in DOMAIN transactions |->
          IF [id |-> t] \in getOverdueTransactions
          THEN [transactions[t] EXCEPT
                  !.fine_amount = (now - transactions[t].due_date) * FallbackDailyRate]
          ELSE transactions[t]]
  /\ response' = [op |-> "getOverdue", success |-> TRUE, error |-> "",
                  data |-> getOverdueTransactions]
  /\ UNCHANGED <<books, members, settings, bookSeq, memberSeq, txnSeq, now, proc>>

\* 'transactions:getActive' -> getActiveTransactions
GetActive ==
  /\ response' = [op |-> "getActive", success |-> TRUE, error |-> "",
                  data |-> getActiveTransactions]
  /\ UNCHANGED <<store, now, proc>>

\* 'transactions:getOverdue' -> getOverdueTransactions
GetOverdue ==
  /\ response' = [op |-> "getOverdue", success |-> TRUE, error |-> "",
                  data |-> getOverdueTransactions]
  /\ UNCHANGED <<store, now, proc>>

\* ------------------------------------------------ AuthService (methods)

ErrPinLength == "PIN must be between 4 and 8 characters"
ErrAlreadySetUp == "Authentication is already set up"
ErrAccountLocked == "Account locked. Try again in N minutes"
ErrNotSetUp == "Authentication not set up"
ErrInvalidPin == "Invalid PIN"

AuthIdle == auth.call.pc = "idle"

\* 'auth:setup' -> setup(pin), its statements in one step: the PIN's length,
\* the stored hash if any, then the three setSetting calls.
\* (SetupErrorLengthOnly: a setup that does not look for a stored hash.)
SetupErrorLengthOnly(pin) ==
  IF Len(pin) < 4 \/ Len(pin) > 8 THEN ErrPinLength ELSE ""

SetupError(pin) ==
  IF Len(pin) < 4 \/ Len(pin) > 8 THEN ErrPinLength
  ELSE IF getSetting("authPinHash") # <<>> THEN ErrAlreadySetUp
  ELSE ""

Setup(pin) ==
  /\ AuthIdle
  /\ IF SetupError(pin) # ""
     THEN /\ settings' = settings
          /\ response' = [op |-> "setup", success |-> FALSE, error |-> SetupError(pin)]
     ELSE /\ settings' =
               [k \in DOMAIN settings \cup {"authPinHash", "authEnabled", "authSetupDate"} |->
                  CASE k = "authPinHash" -> JsonStringify(bcryptHash(pin))
                    [] k = "authEnabled" -> JsonStringify(TRUE)
                    [] k = "authSetupDate" -> JsonStringify(clock)
                    [] OTHER -> settings[k]]
          /\ response' = [op |-> "setup", success |-> TRUE, error |-> ""]
  /\ UNCHANGED <<ledger, shell>>

\* 'auth:login' -> login(pin), up to `await getSetting('authEnabled')`.
LoginStart(pin) ==
  /\ AuthIdle
  /\ auth' = [auth EXCEPT !.call = [pc |-> "login_enabled", pin |-> pin,
                                    authEnabled |-> getSetting("authEnabled")]]
  /\ Quiet
  /\ UNCHANGED <<store, now, proc, clock, main, renderer>>

\* ... `authEnabled === false`, the lockout, up to `await getSetting('authPinHash')`.
LoginGate ==
  /\ auth.call.pc = "login_enabled"
  /\ IF StrictlyFalse(auth.call.authEnabled)
     THEN /\ auth' = [auth EXCEPT !.currentSession = createSession, !.call = [pc |-> "idle"]]
          /\ response' = [op |-> "login", success |-> TRUE, error |-> ""]
     ELSE IF isLockedOut
     THEN /\ auth' = [auth EXCEPT !.call = [pc |-> "idle"]]
          /\ response' = [op |-> "login", success |-> FALSE, error |-> ErrAccountLocked,
                          minutes |-> CeilMinutes(getLockoutTimeLeft)]
     ELSE /\ auth' = [auth EXCEPT !.call = [pc |-> "login_hash", pin |-> auth.call.pin,
                                            pinHash |-> getSetting("authPinHash")]]
          /\ Quiet
  /\ UNCHANGED <<store, now, proc, clock, main, renderer>>

\* ... `!pinHash`, up to `await bcrypt.compare(pin, pinHash)`.
LoginHash ==
  /\ auth.call.pc = "login_hash"
  /\ IF auth.call.pinHash = <<>>
     THEN /\ auth' = [auth EXCEPT !.call = [pc |-> "idle"]]
          /\ response' = [op |-> "login", success |-> FALSE, error |-> ErrNotSetUp]
     ELSE /\ auth' = [auth EXCEPT !.call = [pc |-> "login_compare", pin |-> auth.call.pin,
                                            pinHash |-> auth.call.pinHash]]
          /\ Quiet
  /\ UNCHANGED <<store, now, proc, clock, main, renderer>>

\* ... the comparison's result: a failed attempt recorded, or the attempts
\* cleared and a session created.
LoginCompare ==
  /\ auth.call.pc = "login_compare"
  /\ LET entered == IF PinOnFile(auth.call.pin) THEN clock ELSE auth.entered
     IN IF ~bcryptCompare(auth.call.pin, auth.call.pinHash)
        THEN /\ auth' = [auth EXCEPT !.loginAttempts = recordFailedAttempt,
                                     !.call = [pc |-> "idle"], !.entered = entered]
             /\ response' = [op |-> "login", success |-> FALSE, error |-> ErrInvalidPin]
        ELSE /\ auth' = [auth EXCEPT !.loginAttempts = clearFailedAttempts,
                                     !.currentSession = createSession,
                                     !.call = [pc |-> "idle"], !.entered = entered]
             /\ response' = [op |-> "login", success |-> TRUE, error |-> ""]
  /\ UNCHANGED <<store, now, proc, clock, main, renderer>>

\* 'auth:logout' -> logout()
Logout ==
  /\ auth' = [auth EXCEPT !.currentSession = <<>>, !.entered = NULL]
  /\ response' = [op |-> "logout", success |-> TRUE, error |-> ""]
  /\ UNCHANGED <<store, now, proc, clock, main, renderer>>

\* 'auth:checkAuth' -> checkAuth(), up to `await getSetting('authEnabled')`.
CheckAuthStart ==
  /\ AuthIdle
  /\ auth' = [auth EXCEPT !.call = [pc |-> "check_enabled",
                                    authEnabled |-> getSetting("authEnabled")]]
  /\ Quiet
  /\ UNCHANGED <<store, now, proc, clock, main, renderer>>

\* ... the session's age against sessionTimeout.
checkAuth ==
  IF StrictlyFalse(auth.call.authEnabled) THEN TRUE
  ELSE IF auth.currentSession = <<>> THEN FALSE
  ELSE clock - auth.currentSession.startTime <= sessionTimeout

CheckAuthFinish ==
  /\ auth.call.pc = "check_enabled"
  /\ auth' =
       [auth EXCEPT
          !.call = [pc |-> "idle"],
          !.currentSession =
             IF StrictlyFalse(auth.call.authEnabled) \/ auth.currentSession = <<>>
             THEN auth.currentSession
             ELSE IF clock - auth.currentSession.startTime > sessionTimeout THEN <<>>
             ELSE [auth.currentSession EXCEPT !.lastActivity = clock]]
  /\ response' = [op |-> "checkAuth", success |-> TRUE, error |-> "",
                  isAuthenticated |-> checkAuth]
  /\ UNCHANGED <<store, now, proc, clock, main, renderer>>

\* 'auth:changePin' -> changePin(oldPin, newPin), its statements in one step:
\* the new PIN's length, the stored hash, the comparison of the old PIN with
\* it, then the two setSetting calls.
ChangePin(oldPin, newPin) ==
  LET error ==
        IF Len(newPin) < 4 \/ Len(newPin) > 8
        THEN "New PIN must be between 4 and 8 characters"
        ELSE IF getSetting("authPinHash") = <<>> THEN ErrNotSetUp
        ELSE IF ~bcryptCompare(oldPin, getSetting("authPinHash")) THEN "Invalid current PIN"
        ELSE ""
  IN /\ AuthIdle
     /\ IF error # ""
        THEN /\ settings' = settings
             /\ response' = [op |-> "changePin", success |-> FALSE, error |-> error]
        ELSE /\ settings' =
                  [k \in DOMAIN settings \cup {"authPinHash", "authPinChangedDate"} |->
                     CASE k = "authPinHash" -> JsonStringify(bcryptHash(newPin))
                       [] k = "authPinChangedDate" -> JsonStringify(clock)
                       [] OTHER -> settings[k]]
             /\ response' = [op |-> "changePin", success |-> TRUE, error |-> ""]
     /\ UNCHANGED <<ledger, shell>>

\* enableAuthentication(): the stored hash, then setSetting('authEnabled', true).
EnableAuthentication ==
  /\ AuthIdle
  /\ IF getSetting("authPinHash") = <<>>
     THEN /\ settings' = settings
          /\ response' = [op |-> "enableAuthentication", success |-> FALSE,
                          error |-> "Authentication must be set up first"]
     ELSE /\ settings' = [k \in DOMAIN settings \cup {"authEnabled"} |->
                            IF k = "authEnabled" THEN JsonStringify(TRUE) ELSE settings[k]]
          /\ response' = [op |-> "enableAuthentication", success |-> TRUE, error |-> ""]
  /\ UNCHANGED <<ledger, shell>>

\* disableAuthentication(): setSetting('authEnabled', false), then
\* `this.currentSession = null`.
DisableAuthentication ==
  /\ AuthIdle
  /\ settings' = [k \in DOMAIN settings \cup {"authEnabled"} |->
                    IF k = "authEnabled" THEN JsonStringify(FALSE) ELSE settings[k]]
  /\ auth' = [auth EXCEPT !.currentSession = <<>>, !.entered = NULL]
  /\ response' = [op |-> "disableAuthentication", success |-> TRUE, error |-> ""]
  /\ UNCHANGED <<ledger, clock, main, renderer>>

\* Date.now() moves on by `step` milliseconds.
ClockTick(step, last) ==
  /\ clock + step <= last
  /\ clock' = clock + step
  /\ Quiet
  /\ UNCHANGED <<store, now, proc, auth, main, renderer>>

\* ------------------------------------------ main process startup, SimpleApp

\* logStartupError(error, phase): the record kept in startupError (stack,
\* platform, nodeVersion and arch are left out).
logStartupError(error, phase) == [phase |-> phase, error |-> error, timestamp |-> clock]

\* createWindow(); setupApplicationMenu(); setTimeout(() => send('app-ready',
\* ...), 1000), as both branches of the whenReady handler end.
WindowAndTimer(m, status) ==
  [m EXCEPT !.pc = "timer", !.mainWindow = "open", !.windows = @ + 1,
            !.timer = [status |-> status, at |-> clock + ReadyDelay]]

\* The catch of the whenReady handler: logStartupError(error,
\* 'APP_INITIALIZATION') replaces what initializeAppWithFallbacks recorded.
StartupFailed(error) ==
  WindowAndTimer([main EXCEPT !.startupError = logStartupError(error, "APP_INITIALIZATION")],
                 "error")

\* initializeAppWithFallbacks after its database is there: setupIpcHandlers(),
\* which throws `ipc` unless that is "".
AfterDatabase(m, ipc) ==
  IF ipc = "" THEN WindowAndTimer(m, "success") ELSE StartupFailed(ipc)

\* app.whenReady().then(...): `await initializeDatabase()`, which throws `db`
\* unless that is "", and what follows a success.
InitializeDatabase(db, ipc) ==
  /\ main.pc = "launch"
  /\ main' = IF db = "" THEN AfterDatabase(main, ipc)
             ELSE [main EXCEPT !.pc = "fallback",
                               !.startupError = logStartupError(db, "DATABASE_INITIALIZATION")]
  /\ Quiet
  /\ UNCHANGED <<store, now, proc, clock, auth, renderer>>

\* ... the fallback `await db.initialize()` and what follows it.
FallbackInitialize(db, ipc) ==
  /\ main.pc = "fallback"
  /\ main' = IF db = "" THEN AfterDatabase(main, ipc) ELSE StartupFailed(db)
  /\ Quiet
  /\ UNCHANGED <<store, now, proc, clock, auth, renderer>>

\* The setTimeout callback: `if (mainWindow && !mainWindow.isDestroyed())
\* mainWindow.webContents.send('app-ready', ...)`.
AppReadyMessage ==
  IF main.timer.status = "success"
  THEN [status |-> "success", timestamp |-> clock]
  ELSE [status |-> "error", error |-> main.startupError]

AppReadyTimer ==
  /\ main.pc = "timer"
  /\ clock >= main.timer.at
  /\ main' = [main EXCEPT !.pc = "running", !.timer = <<>>,
                          !.sent = IF main.mainWindow = "open"
                                   THEN Append(@, AppReadyMessage) ELSE @]
  /\ Quiet
  /\ UNCHANGED <<store, now, proc, clock, auth, renderer>>

\* The window is closed: `mainWindow = null`, and 'window-all-closed' quits the
\* application (any platform but darwin).
WindowClosed ==
  /\ main.mainWindow = "open"
  /\ main' = [main EXCEPT !.pc = "quit", !.mainWindow = "null", !.timer = <<>>]
  /\ renderer' = RendererUnmounted
  /\ Quiet
  /\ UNCHANGED <<store, now, proc, clock, auth>>

\* The window's page is loaded and SimpleApp renders for the first time.
RendererMount ==
  /\ main.mainWindow = "open"
  /\ ~renderer.mounted
  /\ renderer' = SimpleAppMounted(0)
  /\ Quiet
  /\ UNCHANGED <<store, now, proc, clock, auth, main>>

\* An 'app-ready' message reaches the renderer process.  SimpleApp registers
\* no onAppReady callback and starts no timer, and handleLogin / handleSetup
\* are reached from LoginPage only, which is not rendered while isLoading:
\* its state stays as it was mounted.
DeliverAppReady ==
  /\ renderer.mounted
  /\ renderer.handed < Len(main.sent)
  /\ renderer' = [renderer EXCEPT !.handed = @ + 1]
  /\ Quiet
  /\ UNCHANGED <<store, now, proc, clock, auth, main>>

\* The ledger under concurrent requests: every handler on books, members and
\* transactions, with up to NumProcs lend / return invocations in flight.
\* Members are of one type here and the settings table stays empty; the
\* per-type periods and fine rules are exercised by DeskSpec.  The clock is
\* looked at every LedgerDayStep days: a due date is at least one day after
\* the lend day, so two days is the shortest step that makes a loan overdue.
Next ==
  \/ \E n \in TotalCopiesInputs : bookSeq < MaxBooks /\ CreateBook(n, NoValue) /\ UNCHANGED shell
  \/ \E b \in BookIds, n \in TotalCopiesInputs : UpdateBook(b, n, NoValue) /\ UNCHANGED shell
  \/ \E b \in BookIds : DeleteBook(b) /\ UNCHANGED shell
  \/ \E t \in LedgerMemberTypes :
       memberSeq < MaxMembers /\ CreateMember(t, memberSeq + 1, NoValue) /\ UNCHANGED shell
  \/ \E m \in MemberIds : DeleteMember(m) /\ UNCHANGED shell
  \/ Tick(LedgerDayStep, MaxDay) /\ UNCHANGED shell
  \/ \E p \in Procs, b \in BookIds, m \in MemberIds, d \in DueDateInputs : LendStart(p, b, m, d) /\ UNCHANGED shell
  \/ \E p \in Procs : LendCheckBook(p) /\ UNCHANGED shell
  \/ \E p \in Procs : LendCheckMember(p) /\ UNCHANGED shell
  \/ \E p \in Procs : LendCalculated(p) /\ UNCHANGED shell
  \/ \E p \in Procs, t \in TxnIds : ReturnStart(p, t) /\ UNCHANGED shell
  \/ \E p \in Procs : ReturnCheck(p) /\ UNCHANGED shell
  \/ \E p \in Procs : ReturnOverdue(p) /\ UNCHANGED shell

Spec == Init /\ [][Next]_vars

\* One desk, one request at a time: a library with its books and a member
\* already entered, where loans are made and returned over several days while
\* the settings and the member's type are edited.
DeskInit ==
  /\ \E n \in 1..MaxCopies :
       books = [b \in {1} |-> NewBookRow(n, NoValue)]
  /\ \E t \in MemberTypes : members = [m \in {1} |-> NewMemberRow(t, 1, NoValue)]
  /\ transactions = <<>>
  /\ settings = <<>>
  /\ bookSeq = 1
  /\ memberSeq = 1
  /\ txnSeq = 0
  /\ now = 0
  /\ proc = [p \in Procs |-> Idle]
  /\ response = NoResponse
  /\ ShellRunning

DeskNext ==
  \/ \E v \in FineRulesInputs : SetSetting("fineRules", v) /\ UNCHANGED shell
  \/ \E v \in LendingPeriodsInputs : SetSetting("lendingPeriods", v) /\ UNCHANGED shell
  \/ \E t \in MemberTypes : UpdateMember(1, t, 1, NoValue) /\ UNCHANGED shell
  \/ Tick(1, MaxDeskDay) /\ UNCHANGED shell
  \/ \E d \in DueDateInputs : LendStart(1, 1, 1, d) /\ UNCHANGED shell
  \/ LendCheckBook(1) /\ UNCHANGED shell
  \/ LendCheckMember(1) /\ UNCHANGED shell
  \/ LendCalculated(1) /\ UNCHANGED shell
  \/ \E t \in TxnIds : ReturnStart(1, t) /\ UNCHANGED shell
  \/ ReturnCheck(1) /\ UNCHANGED shell
  \/ ReturnOverdue(1) /\ UNCHANGED shell
  \/ GetActive /\ UNCHANGED shell
  \/ GetOverdue /\ UNCHANGED shell

DeskSpec == DeskInit /\ [][DeskNext]_vars

\* The catalogue: books and members entered, edited and removed, with the
\* ISBNs, member codes and e-mail addresses the forms carry.
CatalogNext ==
  \/ \E n \in TotalCopiesInputs, i \in IsbnInputs : bookSeq < MaxBooks /\ CreateBook(n, i) /\ UNCHANGED shell
  \/ \E b \in BookIds, n \in TotalCopiesInputs, i \in IsbnInputs : UpdateBook(b, n, i) /\ UNCHANGED shell
  \/ \E b \in BookIds : DeleteBook(b) /\ UNCHANGED shell
  \/ \E t \in LedgerMemberTypes, c \in MemberCodeInputs, e \in EmailInputs :
       memberSeq < MaxCatalogMembers /\ CreateMember(t, c, e) /\ UNCHANGED shell
  \/ \E m \in 1..MaxCatalogMembers, t \in LedgerMemberTypes,
        c \in MemberCodeInputs, e \in EmailInputs : UpdateMember(m, t, c, e) /\ UNCHANGED shell
  \/ \E m \in 1..MaxCatalogMembers : DeleteMember(m) /\ UNCHANGED shell

CatalogSpec == Init /\ [][CatalogNext]_vars

\* The sign-in desk: a PIN is set up, PINs are tried, the session is checked
\* and closed, over 45 minutes.
AuthNext ==
  \/ \E pin \in PinInputs : Setup(pin)
  \/ \E pin \in PinInputs : FailedAttempts < MaxFailedAttempts /\ LoginStart(pin)
  \/ LoginGate
  \/ LoginHash
  \/ LoginCompare
  \/ Logout
  \/ CheckAuthStart
  \/ CheckAuthFinish
  \/ ClockTick(AuthClockStep, MaxAuthClock)

AuthSpec == Init /\ [][AuthNext]_vars


\* The intake desk: books are entered and edited with the copy counts a
\* caller can send, a number or null (bookData.totalCopies is not required by
\* 'books:create'), and are lent and returned, one request at a time.
IntakeNext ==
  \/ \E n \in TotalCopiesInputs \cup {NoCount} : bookSeq < MaxBooks /\ CreateBook(n, NoValue) /\ UNCHANGED shell
  \/ \E b \in BookIds, n \in TotalCopiesInputs \cup {NoCount} : UpdateBook(b, n, NoValue) /\ UNCHANGED shell
  \/ \E b \in BookIds : DeleteBook(b) /\ UNCHANGED shell
  \/ \E t \in LedgerMemberTypes :
       memberSeq < MaxMembers /\ CreateMember(t, memberSeq + 1, NoValue) /\ UNCHANGED shell
  \/ Tick(LedgerDayStep, MaxDay) /\ UNCHANGED shell
  \/ \E b \in BookIds, m \in MemberIds, d \in DueDateInputs : LendStart(1, b, m, d) /\ UNCHANGED shell
  \/ LendCheckBook(1) /\ UNCHANGED shell
  \/ LendCheckMember(1) /\ UNCHANGED shell
  \/ LendCalculated(1) /\ UNCHANGED shell
  \/ \E t \in TxnIds : ReturnStart(1, t) /\ UNCHANGED shell
  \/ ReturnCheck(1) /\ UNCHANGED shell
  \/ ReturnOverdue(1) /\ UNCHANGED shell

IntakeSpec == Init /\ [][IntakeNext]_vars


\* The sign-in desk with its administration: the PIN is set up and changed,
\* authentication is switched off and on, PINs are tried and the session is
\* checked, over 45 minutes.
AccountNext ==
  \/ \E pin \in PinInputs : Setup(pin)
  \/ \E oldPin \in PinInputs, newPin \in PinInputs : ChangePin(oldPin, newPin)
  \/ EnableAuthentication
  \/ DisableAuthentication
  \/ \E pin \in PinInputs : FailedAttempts < MaxFailedAttempts /\ LoginStart(pin)
  \/ LoginGate
  \/ LoginHash
  \/ LoginCompare
  \/ Logout
  \/ CheckAuthStart
  \/ CheckAuthFinish
  \/ ClockTick(AuthClockStep, MaxAuthClock)

AccountSpec == Init /\ [][AccountNext]_vars

\* The application's start: the main process from app.whenReady() on, with
\* every outcome of the database and handler set-up, and the window's page.
StartupInit ==
  /\ books = <<>>
  /\ members = <<>>
  /\ transactions = <<>>
  /\ settings = <<>>
  /\ bookSeq = 0
  /\ memberSeq = 0
  /\ txnSeq = 0
  /\ now = 0
  /\ proc = [p \in Procs |-> Idle]
  /\ response = NoResponse
  /\ ShellLaunch

StartupNext ==
  \/ \E db \in StartupFailures \cup {""}, ipc \in StartupFailures \cup {""} :
       InitializeDatabase(db, ipc)
  \/ \E db \in StartupFailures \cup {""}, ipc \in StartupFailures \cup {""} :
       FallbackInitialize(db, ipc)
  \/ AppReadyTimer
  \/ WindowClosed
  \/ RendererMount
  \/ DeliverAppReady
  \/ ClockTick(StartClockStep, MaxStartClock)

StartupSpec == StartupInit /\ [][StartupNext]_vars



\* ----------------------------------------------------------------- claims

LendPcs == {"lend_book", "lend_member", "lend_settings"}
ReturnPcs == {"return_txn", "return_settings"}

\* The step in which invocation p answers its lend / return request.
LendResponds(p) == proc[p].pc \in LendPcs /\ proc'[p] = Idle
ReturnResponds(p) == proc[p].pc \in ReturnPcs /\ proc'[p] = Idle

\* The step in which invocation p runs createTransaction with a due date the
\* row's own CHECK accepts.
LendInserts(p) ==
  /\ proc'[p] = Idle
  /\ \/ proc[p].pc = "lend_settings"
     \/ /\ proc[p].pc = "lend_member"
        /\ proc[p].member # Undefined
        /\ proc[p].dueDate # NULL
        /\ chk_due_date_after_lend(proc[p].dueDate, now)

\* C1: every book has available_copies + (number of its open transactions)
\* = total_copies, in every state reachable by createBook, updateBook, lend,
\* return, deleteBook and deleteMember.
C1_AvailablePlusOpenIsTotal ==
  \A b \in DOMAIN books :
    books[b].available_copies + Cardinality(OpenTxns(b)) = books[b].total_copies

\* C2: of two lend invocations on a book with one available copy whose steps
\* interleave, the one that inserts second fails with 'Book is not available
\* for lending' and adds no transaction.
C2_InterleavedLendLoserIsNotAvailable ==
  [][\A p \in Procs :
       (/\ LendInserts(p)
        /\ proc[p].book.available_copies = 1
        /\ proc[p].bookId \in DOMAIN books
        /\ proc[p].memberId \in DOMAIN members
        /\ books[proc[p].bookId].available_copies = 0
        /\ OpenTxns(proc[p].bookId) # {})
       => /\ response' = Response("lend", Err(ErrNotAvailable))
          /\ transactions' = transactions]_vars

\* C3: the number of open transactions of a book never exceeds its
\* total_copies, also after updateBook lowers total_copies.
C3_OpenLoansWithinTotalCopies ==
  \A b \in DOMAIN books : Cardinality(OpenTxns(b)) <= books[b].total_copies

\* C4: every book has 0 <= available_copies <= total_copies in every reachable
\* state, and a lend or return that would break a bound is refused and leaves
\* the store as it was.
C4_Bounds ==
  \A b \in DOMAIN books :
    /\ 0 <= books[b].available_copies
    /\ books[b].available_copies <= books[b].total_copies

C4_BreakingRequestRefused ==
  \A p \in Procs :
    /\ (/\ LendInserts(p)
        /\ proc[p].bookId \in DOMAIN books
        /\ books[proc[p].bookId].available_copies = 0)
       => (response'.success = FALSE /\ UNCHANGED store)
    /\ (/\ ReturnResponds(p)
        /\ proc[p].transactionId \in DOMAIN transactions
        /\ IsOpen(transactions[proc[p].transactionId])
        /\ LET b == transactions[proc[p].transactionId].book_id
           IN books[b].available_copies = books[b].total_copies)
       => (response'.success = FALSE /\ UNCHANGED store)

C5_LendWithoutCopiesIsNotAvailable ==
  [][\A p \in Procs :
       (/\ LendResponds(p)
        /\ proc[p].book # Undefined
        /\ proc[p].book.available_copies = 0
        /\ proc[p].bookId \in DOMAIN books
        /\ books[proc[p].bookId].available_copies = 0)
       => /\ response' = Response("lend", Err(ErrNotAvailable))
          /\ UNCHANGED <<books, transactions>>]_vars

\* C6: a return of an open transaction, with no other return of it in flight,
\* succeeds and stamps return_date and fine_amount; the next return of the same
\* transaction fails with 'Book has already been returned' and changes neither
\* the transaction nor the book.
C6_ReturnTwiceInSequence ==
  [][\A p \in Procs :
       (ReturnResponds(p) /\ proc[p].transactionId \in DOMAIN transactions)
       => LET tid == proc[p].transactionId
              t == transactions[tid]
              readOpen == \/ proc[p].pc = "return_settings"
                          \/ /\ proc[p].transaction # Undefined
                             /\ proc[p].transaction.return_date = NULL
              readReturned == /\ proc[p].pc = "return_txn"
                              /\ proc[p].transaction # Undefined
                              /\ proc[p].transaction.return_date # NULL
          IN /\ (IsOpen(t) /\ readOpen)
                => /\ response'.success
                   /\ tid \in DOMAIN transactions'
                   /\ transactions'[tid].return_date = now
                   /\ transactions'[tid].fine_amount >= 0
             /\ (~IsOpen(t) /\ readReturned)
                => /\ response' = Response("return", Err(ErrAlreadyReturned))
                   /\ UNCHANGED <<books, transactions>>]_vars

\* C7: the fine stored by a return is 0 on or before the due date and otherwise
\* min(daysOverdue * dailyRate, maxFine) with the rate and cap configured for
\* the member's type, a configured 0 included (member types without a grace
\* period).
C7_FineIsCappedProduct ==
  [][\A p \in Procs :
       (ReturnResponds(p) /\ response'.success)
       => LET tid == proc[p].transactionId
              paid == transactions'[tid].fine_amount
          IN IF proc[p].pc = "return_txn"
             THEN now <= transactions[tid].due_date => paid = 0
             ELSE LET rules == FineRulesOf(proc[p].settings)[proc[p].member_type]
                      days == proc[p].daysOverdue
                      grace == IF "gracePeriod" \in DOMAIN rules
                               THEN rules.gracePeriod ELSE 0
                  IN grace = 0 => paid = Min(days * rules.dailyRate, rules.maxFine)]_vars

\* C8: a return no more than gracePeriod(memberType) days after the due date
\* stores a fine of 0.
C8_NoFineWithinGracePeriod ==
  [][\A p \in Procs :
       (/\ ReturnResponds(p)
        /\ response'.success
        /\ proc[p].pc = "return_settings"
        /\ "fineRules" \in DOMAIN proc[p].settings
        /\ LET rules == proc[p].settings.fineRules[proc[p].member_type]
           IN proc[p].daysOverdue <= rules.gracePeriod)
       => transactions'[proc[p].transactionId].fine_amount = 0]_vars

\* C9: a lend without a due date creates a transaction due on the lend date
\* plus the lending period configured for the member's type, and without
\* configured periods 14 days for student, 30 for faculty, 7 for public.
C9_DueDateFollowsMemberType ==
  [][\A p \in Procs :
       (LendResponds(p) /\ response'.success /\ proc[p].dueDate = NULL)
       => LET period == LendingPeriodsOf(proc[p].settings)[proc[p].member.member_type]
          IN \A id \in DOMAIN transactions' \ DOMAIN transactions :
               transactions'[id].due_date = transactions'[id].transaction_date + period]_vars

C11_SuccessfulReturnEffects ==
  [][\A p \in Procs :
       (ReturnResponds(p) /\ response'.success)
       => LET tid == proc[p].transactionId
              b == transactions[tid].book_id
          IN /\ tid \in DOMAIN transactions'
             /\ transactions'[tid].return_date = now
             /\ transactions'[tid].fine_amount >= 0
             /\ transactions'[tid].transaction_type = "return"
             /\ b \in DOMAIN books'
             /\ books'[b].available_copies = books[b].available_copies + 1
             /\ books'[b].status = "available"]_vars

\* C12: deleteBook / deleteMember leaves the store as it is while the book /
\* member has an open transaction: no step removes an open transaction, its
\* book or its member; and the same delete removes the book / member (and its
\* transactions) once none of its transactions is open.
C12_DeleteWaitsForOpenLoans ==
  [][\/ UNCHANGED <<books, members, transactions>>
     \/ /\ \A t \in DOMAIN transactions :
             IsOpen(transactions[t]) =>
               /\ t \in DOMAIN transactions'
               /\ transactions[t].book_id \in DOMAIN books'
               /\ transactions[t].member_id \in DOMAIN members'
        /\ \A b \in DOMAIN books :
             (OpenTxns(b) # {} /\ DeleteBook(b)) => UNCHANGED store
        /\ \A b \in DOMAIN books :
             (OpenTxns(b) = {} /\ DeleteBook(b))
             => /\ b \notin DOMAIN books'
                /\ \A t \in DOMAIN transactions' : transactions'[t].book_id # b
        /\ \A m \in DOMAIN members :
             (OpenTxnsOfMember(m) # {} /\ DeleteMember(m)) => UNCHANGED store
        /\ \A m \in DOMAIN members :
             (OpenTxnsOfMember(m) = {} /\ DeleteMember(m))
             => /\ m \notin DOMAIN members'
                /\ \A t \in DOMAIN transactions' : transactions'[t].member_id # m]_vars

\* C12 witness: the only book there has been was lent, and is deleted with its
\* transactions after the loan was returned; the member is still there.
C12_Witness ==
  /\ bookSeq = 1
  /\ books = <<>>
  /\ txnSeq >= 1
  /\ transactions = <<>>
  /\ members # <<>>

\* C13: a lend that finds no book fails with 'Book not found', a lend that
\* finds no member fails with 'Member not found', a return that finds no
\* transaction fails with 'Transaction not found'; each leaves books, members
\* and transactions unchanged.
C13_MissingRowsAreNotFound ==
  [][\A p \in Procs :
       /\ (LendResponds(p) /\ proc[p].pc = "lend_book" /\ proc[p].book = Undefined)
          => /\ response' = Response("lend", Err(ErrBookNotFound))
             /\ UNCHANGED <<books, members, transactions>>
       /\ (LendResponds(p) /\ proc[p].pc = "lend_member" /\ proc[p].member = Undefined)
          => /\ response' = Response("lend", Err(ErrMemberNotFound))
             /\ UNCHANGED <<books, members, transactions>>
       /\ (ReturnResponds(p) /\ proc[p].pc = "return_txn" /\ proc[p].transaction = Undefined)
          => /\ response' = Response("return", Err(ErrTxnNotFound))
             /\ UNCHANGED <<books, members, transactions>>]_vars

\* C13 witness: a lend of an existing book to a member id that is not in the
\* store has just been refused.
C13_Witness ==
  /\ response = Response("lend", Err(ErrMemberNotFound))
  /\ books # <<>>
  /\ members = <<>>

\* C14: the active listing holds exactly the transactions of type 'lend'
\* without a return date, the overdue listing exactly the active ones due
\* strictly before today; overdue is a subset of active, and a loan is tagged
\* 'overdue' in the active listing iff it is in the overdue listing.
C14_ListingsMatchOpenLoans ==
  LET active == {r.id : r \in getActiveTransactions}
      overdue == {r.id : r \in getOverdueTransactions}
  IN /\ active = {t \in DOMAIN transactions :
                    /\ transactions[t].transaction_type = "lend"
                    /\ transactions[t].return_date = NULL}
     /\ overdue = {t \in active : transactions[t].due_date < now}
     /\ overdue \subseteq active
     /\ \A r \in getActiveTransactions : r.status = "overdue" <=> r.id \in overdue
     /\ \A r \in getActiveTransactions : r.status \in {"overdue", "on_time"}

\* C14 witness: the overdue listing has just been sent with a loan in it, and
\* another loan is active and not overdue.
C14_Witness ==
  /\ response.op = "getOverdue"
  /\ response.data # {}
  /\ \E r \in getActiveTransactions : r.status = "on_time"

\* C15: listing the active or the overdue loans changes nothing in the store,
\* and an open transaction keeps fine_amount 0 however long it is overdue.
C15_OpenLoanHasNoFine ==
  \A t \in DOMAIN transactions : IsOpen(transactions[t]) => transactions[t].fine_amount = 0

C15_ListingStep == response'.op \in {"getActive", "getOverdue"} => UNCHANGED store

C15_ListingsWriteNothing == []C15_OpenLoanHasNoFine /\ [][C15_ListingStep]_vars

\* C15 witness: the active listing has just been sent with a loan two days
\* overdue in it, whose fine_amount is still 0.
C15_Witness ==
  /\ response.op = "getActive"
  /\ \E r \in response.data :
       /\ r.status = "overdue"
       /\ now - transactions[r.id].due_date >= 2
       /\ transactions[r.id].fine_amount = 0

\* C16: creating or updating a book with an ISBN another book holds, or a
\* member with a member code or e-mail another member holds, fails with an
\* '... already exists' error and changes no row; ISBN, member code and e-mail
\* stay unique across the store.
C16_Unique ==
  /\ \A a, b \in DOMAIN books :
       (a # b /\ books[a].isbn # NULL) => books[a].isbn # books[b].isbn
  /\ \A a, b \in DOMAIN members :
       a # b => /\ members[a].member_id # members[b].member_id
                /\ members[a].email # NULL => members[a].email # members[b].email

C16_ConflictReported ==
  /\ \A i \in IsbnInputs \ {NoValue}, n \in 1..MaxCopies :
       /\ (\E b \in DOMAIN books : books[b].isbn = i)
          => CreateBookError(n, i) = ErrIsbnExists
       /\ \A id \in DOMAIN books :
            (/\ \E b \in DOMAIN books \ {id} : books[b].isbn = i
             /\ books[id].available_copies <= n)
            => UpdateBookError(id, n, i) = ErrIsbnExists
  /\ \A c \in MemberCodeInputs, e \in EmailInputs :
       LET codeUsedBy(m) == members[m].member_id = c
           emailUsedBy(m) == e # NoValue /\ members[m].email = e
           conflicts == {ErrMemberIdExists, ErrEmailExists}
       IN /\ (\E m \in DOMAIN members : codeUsedBy(m) \/ emailUsedBy(m))
             => MemberUniqueError(c, e, 0) \in conflicts
          /\ \A id \in DOMAIN members :
               (\E m \in DOMAIN members \ {id} : codeUsedBy(m) \/ emailUsedBy(m))
               => UpdateMemberError(id, c, e) \in conflicts

C16_ConflictChangesNothing ==
  /\ \A i \in IsbnInputs, n \in TotalCopiesInputs :
       /\ (CreateBookError(n, i) = ErrIsbnExists /\ CreateBook(n, i)) => UNCHANGED store
       /\ \A id \in DOMAIN books :
            (UpdateBookError(id, n, i) = ErrIsbnExists /\ UpdateBook(id, n, i))
            => UNCHANGED store
  /\ \A c \in MemberCodeInputs, e \in EmailInputs, t \in LedgerMemberTypes :
       /\ (MemberUniqueError(c, e, 0) # "" /\ CreateMember(t, c, e)) => UNCHANGED store
       /\ \A id \in DOMAIN members :
            (MemberUniqueError(c, e, id) # "" /\ UpdateMember(id, t, c, e))
            => UNCHANGED store

C17_LockoutThenCorrectPin ==
  [][ /\ ( /\ auth.call.pc = "login_enabled"
          /\ auth'.call.pc # "login_enabled"
          /\ FailedAttempts >= maxLoginAttempts
          /\ clock - auth.loginAttempts[clientInfo].lastAttempt < lockoutDuration )
        => ( /\ response'.op = "login"
             /\ ~response'.success
             /\ response'.error = ErrAccountLocked
             /\ auth'.loginAttempts = auth.loginAttempts )
      /\ ( /\ auth.call.pc = "login_compare"
          /\ auth'.call.pc = "idle"
          /\ FailedAttempts >= maxLoginAttempts
          /\ PinOnFile(auth.call.pin) )
        => ( /\ response'.op = "login"
             /\ response'.success ) ]_vars

\* C18: with authentication enabled, a checkAuth that is answered within
\* sessionTimeout of the login with the stored PIN (no logout in between)
\* answers true, and a checkAuth that answers false leaves no session.
C18_SessionLastsWhileActive ==
  [][ ( /\ auth.call.pc = "check_enabled"
        /\ auth'.call.pc = "idle" )
      => ( /\ ( /\ "authEnabled" \in DOMAIN settings
               /\ JsonParse(settings["authEnabled"]) = TRUE
               /\ auth.entered # NULL
               /\ clock - auth.entered <= sessionTimeout )
             => response'.isAuthenticated
           /\ ~response'.isAuthenticated => auth'.currentSession = <<>> ) ]_vars

\* C19: at most one 'app-ready' message is sent, after the window was created;
\* once the startup timer has run there is exactly one; its status is 'error',
\* with the recorded startup error, when a startup error was recorded, and
\* 'success' when none was.
C19_OneAppReadyMatchesStartupError ==
  /\ Len(main.sent) <= 1
  /\ main.pc \in {"timer", "running"} => main.windows >= 1
  /\ main.sent # <<>> => main.windows >= 1
  /\ main.pc = "running" => Len(main.sent) = 1
  /\ \A i \in DOMAIN main.sent :
        IF main.startupError = <<>>
        THEN main.sent[i].status = "success"
        ELSE /\ main.sent[i].status = "error"
             /\ main.sent[i].error = main.startupError

\* C20: a mounted renderer that was handed no 'app-ready' message for
\* StartupTimeout has left loading with a startup error of phase APP_TIMEOUT,
\* and one that was handed a message of status 'error' has left loading and
\* holds that error.
C20_RendererLeavesLoading ==
  renderer.mounted =>
    /\ (renderer.handed = 0 /\ clock - renderer.mountedAt >= StartupTimeout)
         => ( /\ ~renderer.isLoading
              /\ renderer.startupError # <<>>
              /\ renderer.startupError.phase = "APP_TIMEOUT" )
    /\ (renderer.handed > 0 /\ main.sent[renderer.handed].status = "error")
         => ( /\ ~renderer.isLoading
              /\ renderer.startupError = main.sent[renderer.handed].error )

\* C21: a return invocation that answers while its transaction is already
\* returned (another invocation returned it in between) fails with 'Book has
\* already been returned' and writes nothing: of two interleaved returns of
\* one open transaction exactly one succeeds, and the return date and fine
\* are written once.
C21_SecondReturnIsAlreadyReturned ==
  [][\A p \in Procs :
       ( /\ ReturnResponds(p)
         /\ \/ proc[p].pc = "return_settings"
            \/ proc[p].pc = "return_txn" /\ proc[p].transaction # Undefined
         /\ proc[p].transactionId \in DOMAIN transactions
         /\ transactions[proc[p].transactionId].return_date # NULL )
       => /\ response' = Response("return", Err(ErrAlreadyReturned))
          /\ transactions' = transactions]_vars

\* C22: available_copies of a book goes up only in the step of a return that
\* closes an open transaction of that book, and then by exactly one; a return
\* that answers on a transaction already returned leaves every book as it was.
C22_ReturnIncrementsOncePerTransaction ==
  [][/\ \A p \in Procs :
          (ReturnResponds(p) /\ proc[p].transactionId \in DOMAIN transactions)
          => LET old == transactions[proc[p].transactionId]
             IN /\ DOMAIN books' = DOMAIN books
                /\ \A b \in DOMAIN books :
                     books'[b].available_copies =
                       books[b].available_copies +
                         (IF /\ old.return_date = NULL
                             /\ b = old.book_id
                             /\ response'.success
                          THEN 1 ELSE 0)
     /\ \A b \in DOMAIN books \cap DOMAIN books' :
          books'[b].available_copies > books[b].available_copies
          => \E p \in Procs :
               /\ ReturnResponds(p)
               /\ proc[p].transactionId \in DOMAIN transactions
               /\ transactions[proc[p].transactionId].book_id = b
               /\ transactions[proc[p].transactionId].return_date = NULL
               /\ transactions'[proc[p].transactionId].return_date # NULL]_vars

\* A return in flight that read its transaction open, while the transaction
\* has meanwhile been returned and its copy given back.
C22_Witness ==
  \E p \in Procs :
    /\ \/ proc[p].pc = "return_settings"
       \/ /\ proc[p].pc = "return_txn"
          /\ proc[p].transaction # Undefined
          /\ proc[p].transaction.return_date = NULL
    /\ proc[p].transactionId \in DOMAIN transactions
    /\ transactions[proc[p].transactionId].return_date # NULL
    /\ transactions[proc[p].transactionId].book_id \in DOMAIN books
    /\ books[transactions[proc[p].transactionId].book_id].available_copies >= 1

\* C23: a book's status is 'loaned' exactly when its available_copies is 0
\* and 'available' exactly when it is greater than 0; 'reserved' is never
\* entered, whatever copy count, or none, the book was created with.
C23_StatusFollowsCount ==
  \A b \in DOMAIN books :
    /\ books[b].status # "reserved"
    /\ books[b].status = "loaned" <=> books[b].available_copies = 0
    /\ books[b].status = "available" <=>
         (books[b].available_copies # NoCount /\ books[b].available_copies > 0)

\* C24: a transaction's type is 'return' exactly when its return date is set
\* and 'lend' exactly when it is null; a closed transaction is never open
\* again, so a transaction goes from open to closed at most once.
C24_TypeFollowsReturnDate ==
  /\ [](\A t \in DOMAIN transactions :
          /\ transactions[t].transaction_type = "return" <=> transactions[t].return_date # NULL
          /\ transactions[t].transaction_type = "lend" <=> transactions[t].return_date = NULL)
  /\ [][\A t \in DOMAIN transactions \cap DOMAIN transactions' :
          transactions[t].return_date # NULL => transactions'[t].return_date # NULL]_vars

\* A return has just closed a transaction.
C24_Witness ==
  \E t \in DOMAIN transactions :
    /\ response = Response("return", Ok(t))
    /\ transactions[t].return_date # NULL
    /\ transactions[t].transaction_type = "return"

\* C25: every transaction references a book and a member that exist; a
\* transaction leaves the table only in the step that deletes its book or its
\* member; a lend that reaches its insert when its book or member is gone
\* fails and creates no transaction.
C25_TransactionsReferenceExistingRows ==
  /\ [](\A t \in DOMAIN transactions :
          /\ transactions[t].book_id \in DOMAIN books
          /\ transactions[t].member_id \in DOMAIN members)
  /\ [][/\ \A t \in DOMAIN transactions \ DOMAIN transactions' :
             \/ transactions[t].book_id \notin DOMAIN books'
             \/ transactions[t].member_id \notin DOMAIN members'
        /\ \A p \in Procs :
             ( /\ LendResponds(p)
               /\ \/ proc[p].bookId \notin DOMAIN books
                  \/ proc[p].memberId \notin DOMAIN members )
             => /\ transactions' = transactions
                /\ books' = books
                /\ ~response'.success]_vars

\* A lend whose existence checks passed has been refused by the foreign key.
C25_Witness == response = Response("lend", Err(ErrForeignKey))

\* C26: every stored transaction has a due date not before its transaction
\* date and, once returned, a return date not before it; a lend that reaches
\* its insert with an explicit due date earlier than the lend date is
\* rejected, creates no transaction and leaves every book as it was.
C26_DatesNotBeforeLend ==
  /\ [](\A t \in DOMAIN transactions :
          /\ transactions[t].due_date >= transactions[t].transaction_date
          /\ transactions[t].return_date # NULL
               => transactions[t].return_date >= transactions[t].transaction_date)
  /\ [][\A p \in Procs :
          ( /\ proc[p].pc = "lend_member"
            /\ proc'[p] = Idle
            /\ proc[p].member # Undefined
            /\ proc[p].dueDate # NULL
            /\ proc[p].dueDate < now )
          => /\ ~response'.success
             /\ transactions' = transactions
             /\ books' = books]_vars

\* The insert of a lend has been refused for its due date.
C26_Witness == response = Response("lend", Err(ErrCheckDueDate))

\* C27: a login that read the authEnabled value stored by
\* disableAuthentication succeeds, whatever its PIN, and a checkAuth that read
\* it answers true; a login that read the value stored by
\* enableAuthentication succeeds only with the PIN on file.
C27_DisabledAuthenticationLetsIn ==
  [][/\ ( /\ auth.call.pc = "login_enabled"
          /\ auth.call.authEnabled = JsonStringify(FALSE) )
        => ( response'.op = "login" /\ response'.success )
     /\ ( /\ auth.call.pc = "check_enabled"
          /\ auth.call.authEnabled = JsonStringify(FALSE) )
        => ( response'.op = "checkAuth" /\ response'.isAuthenticated )
     /\ ( /\ auth.call.pc = "login_compare"
          /\ getSetting("authEnabled") = JsonStringify(TRUE)
          /\ response'.success )
        => PinOnFile(auth.call.pin)]_vars

\* C28: in the step of setSetting(k, v), getSetting(k) afterwards is v and is
\* the value getAllSettings() reports for k, and every other key keeps its
\* value; when k had a value, v has replaced it.
C28_SettingsRoundTrip ==
  [][\A kv \in ({"fineRules"} \X FineRulesInputs)
                 \cup ({"lendingPeriods"} \X LendingPeriodsInputs) :
       SetSetting(kv[1], kv[2])
       => /\ kv[1] \in DOMAIN settings'
          /\ \A o \in DOMAIN settings \ {kv[1]} :
               o \in DOMAIN settings' /\ settings'[o] = settings[o]
          /\ getAllSettings'[kv[1]] = kv[2]
          /\ ~IsText(getSetting(kv[1])')
          /\ getSetting(kv[1])' = kv[2]
          /\ getSetting(kv[1])' = getAllSettings'[kv[1]]]_vars

\* C29: the failed-login counter changes only in the step that ends a PIN
\* comparison: it goes up by one when the comparison fails and back to zero
\* when it succeeds; a login rejected for lockout leaves the counter and the
\* time of the last attempt as they were, and so does the passing of time.
C29_FailedAttemptsCounter ==
  [][/\ FailedAttempts' # FailedAttempts
          => /\ auth.call.pc = "login_compare"
             /\ response'.op = "login"
             /\ \/ FailedAttempts' = FailedAttempts + 1 /\ ~response'.success
                \/ FailedAttempts' = 0 /\ response'.success
     /\ ( /\ auth.call.pc = "login_compare"
          /\ response'.op = "login"
          /\ ~response'.success )
        => FailedAttempts' = FailedAttempts + 1
     /\ ( /\ auth.call.pc = "login_enabled"
          /\ response'.op = "login"
          /\ response'.error = ErrAccountLocked )
        => auth'.loginAttempts = auth.loginAttempts
     /\ clock' # clock => auth'.loginAttempts = auth.loginAttempts]_vars

\* A sixth failed attempt is on record: the lockout that followed the fifth
\* has run out, and the counter was not cleared by that.
C29_Witness ==
  /\ FailedAttempts = maxLoginAttempts + 1
  /\ response = [op |-> "login", success |-> FALSE, error |-> ErrInvalidPin]

====
